---------------------------- MODULE Spec2Model ----------------------------
(***************************************************************************)
(* ColorPipe-tools: the Cube LUT writer (utils/cube_helper.py), the LUT    *)
(* converter (lutLab/lut_to_lut.py) and the LUT plotter                    *)
(* (plotThatLut/plot_that_lut.py).                                         *)
(*                                                                         *)
(* A behaviour is one Python process.  The process is either a lutLab      *)
(* process (it imports utils.cube_helper, so it owns the CUBE_HELPER       *)
(* singleton, and it calls the writers directly or through lut_to_lut) or  *)
(* a plotThatLut process (plot_that_lut.py, which never touches the        *)
(* writers).  Calls run one at a time (the code is single threaded); a     *)
(* call is a sequence of steps, pc is the position inside it.              *)
(*                                                                         *)
(* Numbers: a sampled coordinate n/max_value is kept as the fraction       *)
(* <<n, max_value>>.  Python values that may be None are records with a    *)
(* kind field, so that None never has to be compared with a number.        *)
(***************************************************************************)
EXTENDS Integers, Sequences, FiniteSets, TLC

\* ------------------------------------------------------------------ bounds
\* largest cube_size a 3D write or a cube plot is run with
MaxCubeSize == 3
\* largest samples_count a curve plot is run with
MaxCount == 4
\* number of samples the 1D/2D data of a write holds
Data1dSize == 2
\* the per-sample line formatter may fail on sample 1..MaxFault (0: never)
MaxFault == 1

\* --------------------------------------------------------------- constants
CUBE_1D == "LUT_1D_SIZE"
CUBE_3D == "LUT_3D_SIZE"
DEFAULT_SAMPLE == 256
DEFAULT_CUBE_SIZE == 17
\* the cube_size and out_bitdepth of the Cube default preset
PresetCubeSize == 17
PresetBitDepth == 12
\* presets.FLOAT_BOUNDARY, the sanity threshold of a float output range
FLOAT_BOUNDARY == 100
OCIO_LUTS_FORMATS ==
    {".3dl", ".csp", ".cub", ".cube", ".hdl", ".look", ".mga/m3d",
     ".spi1d", ".spi3d", ".spimtx", ".vf"}

\* ------------------------------------------------------------------ values
\* Python's None where a string is expected (a preset's title)
NoTitle == "<None>"

\* output ranges a preset is given: [0.0, 1.0], [0, 1023], [0.0, 200.0] and
\* [0.0, FLOAT_BOUNDARY]
FloatUnit == [kind |-> "float", lo |-> 0, hi |-> 1]
IntTenBit == [kind |-> "int", lo |-> 0, hi |-> 1023]
FloatBig == [kind |-> "float", lo |-> 0, hi |-> 200]
FloatAtBoundary == [kind |-> "float", lo |-> 0, hi |-> FLOAT_BOUNDARY]
Ranges == {FloatUnit, IntTenBit, FloatBig, FloatAtBoundary}

\* destination paths
Paths == {"a.cube", "b.cube"}

\* the external colour transforms (processor.applyRGB) the model samples
Transforms == {"identity", "invert", "rotate"}

\* a message of utils.color_log_helper, or a returned message; level "None"
\* is Python's None
Msg(level, text, path) == [level |-> level, text |-> text, path |-> path]
None == Msg("None", "", "")

\* processor.applyRGB: the external transform on a triple of fractions
applyRGB(t, rgb) ==
    CASE t = "identity" -> rgb
      [] t = "invert" -> << <<rgb[1][2] - rgb[1][1], rgb[1][2]>>,
                            <<rgb[2][2] - rgb[2][1], rgb[2][2]>>,
                            <<rgb[3][2] - rgb[3][1], rgb[3][2]>> >>
      [] OTHER -> <<rgb[2], rgb[3], rgb[1]>>

\* processor.hasChannelCrosstalk(): an output channel depends on another
\* input channel
hasChannelCrosstalk(t) == t = "rotate"

\* ----------------------------------------------------------------- presets
\* CubeLutHelper.__init__: the default preset dict of the helper
InitDefaultPreset ==
    [type |-> "default", ext |-> ".cube",
     input_range |-> FloatUnit, output_range |-> FloatUnit,
     out_bitdepth |-> PresetBitDepth, cube_size |-> PresetCubeSize,
     title |-> "Cube LUT",
     comment |-> "Generated by ColorPipe-tools, cube_helper 0.2",
     version |-> "1",
     smooth |-> 0]   \* the 'smooth' key: absent (0) until lut_to_lut sets it

\* presets a caller builds itself (a new dict: the defaults with its own
\* cube size, output range and title)
FreshPresets ==
    {[InitDefaultPreset EXCEPT !.cube_size = n, !.output_range = r,
                               !.title = ti] :
        n \in 2..MaxCubeSize, r \in Ranges, ti \in {"Cube LUT", NoTitle}}

\* AbstractLUTHelper.is_output_int: the output range is an integer range
is_output_int(p) == p.output_range.kind = "int"

\* ------------------------------------------------------------ file content
\* one line of the written file; a write of "...\n\n" gives the line and a
\* blank line
Line(kind, ti, size, rgb) ==
    [kind |-> kind, title |-> ti, size |-> size, rgb |-> rgb]
BlankLine == Line("", NoTitle, 0, <<>>)
\* "TITLE {0}\n\n".format(title)
TitleLines(ti) == <<Line("TITLE", ti, 0, <<>>), BlankLine>>
\* "{0} {1}\n\n".format(keyword, size)
SizeLines(kw, size) == <<Line(kw, NoTitle, size, <<>>), BlankLine>>
\* AbstractLUTHelper._get_rgb_value_line: one text line for one sample
_get_rgb_value_line(p, rgb) == Line("data", NoTitle, 0, rgb)
\* AbstractLUTHelper.get_generated_title: a title from the path and preset
get_generated_title(path, p) ==
    IF path = "a.cube" THEN "a_generated" ELSE "b_generated"
\* AbstractLUTHelper.get_export_message: the success message of a write
get_export_message(path) == Msg("str", "A LUT was written in", path)
\* color_log_helper.print_success_message: the printed form of a value
print_success_message(m) ==
    IF m = None THEN Msg("success", "None", "")
    ELSE Msg("success", m.text, m.path)

\* ---------------------------------------------------------------- sampling
\* the lattice point of index i (from 0) of a cube of n points per axis,
\* R outermost, B innermost
LatticePoint(n, i) ==
    << <<i \div (n * n), n - 1>>, <<(i \div n) % n, n - 1>>,
       <<i % n, n - 1>> >>
\* AbstractLUTHelper._get_3d_data: the transform on the cube_size^3 lattice
_get_3d_data(t, p) ==
    [i \in 1..(p.cube_size * p.cube_size * p.cube_size) |->
        applyRGB(t, LatticePoint(p.cube_size, i - 1))]
\* AbstractLUTHelper._get_1d_data: the transform on the grey ramp
_get_1d_data(t, p) ==
    [i \in 1..Data1dSize |->
        applyRGB(t, << <<i - 1, Data1dSize - 1>>, <<i - 1, Data1dSize - 1>>,
                       <<i - 1, Data1dSize - 1>> >>)]

\* ------------------------------------------------------------------- state
VARIABLES
    program,         \* "none", "lutLab" or "plotThatLut": the running script
    default_preset,  \* CUBE_HELPER.default_preset, the helper's dict
    caller_ref,      \* "alias" once a caller holds get_default_preset()'s dict
    fs,              \* fs[path]: a file exists at path
    fs0,             \* fs when the current call started
    called,          \* the call a caller made: [fn, lut, file_path, preset]
    pc,              \* position in the current call; "idle" between calls
    stack,           \* the functions of the current call, outermost first
    inlutfiles,      \* lut_to_lut: the input LUT [lut, ext]
    processor,       \* [lut, interp]: the OCIO processor handed to the call
    probe,           \* what the 3D probe of the call found: "none" (not
                     \* probed), "3D" or "1D/2D"
    file_path,       \* destination path argument
    preset,          \* the preset argument (the dict's current value)
    preset_ref,      \* "alias": preset is the helper's dict; "fresh": its own
    fault,           \* sample on which the line formatter fails, 0 for none
    write_function,  \* lut_to_lut: the write function it resolved
    verbose,         \* lut_to_lut: verbose argument
    data,            \* writer local: the sampled data
    title,           \* writer local
    idx,             \* writer local: next sample of `for rgb in data`
    lutfile,         \* writer local: the file object [state, path, lines]
    req,             \* plot_that_lut: the arguments it was called with
    plot_type,       \* plot_that_lut local: the plot type after resolution
    count,           \* samples_count of plot_curve / cube_size of plot_cube
    red_values,      \* plot local
    green_values,    \* plot local
    blue_values,     \* plot local
    input_range,     \* plot_curve local: the sampled coordinates
    colors,          \* plot_cube local: the sampled lattice points
    loop,            \* plot local: <<n>> of plot_curve, <<r, g, b>> of plot_cube
    log,             \* messages printed by the current call
    result           \* [kind, value]: what the last finished frame gave back

persistent == <<program, default_preset, caller_ref, fs>>
callArgs == <<inlutfiles, processor, probe, file_path, preset, preset_ref, fault,
              write_function, verbose>>
writerLocals == <<data, title, idx, lutfile>>
plotLocals == <<req, plot_type, count, red_values, green_values, blue_values,
                input_range, colors, loop>>
vars == <<program, default_preset, caller_ref, fs, fs0, called, pc, stack,
          inlutfiles, processor, probe, file_path, preset, preset_ref, fault,
          write_function, verbose,
          data, title, idx, lutfile, req, plot_type, count, red_values,
          green_values, blue_values, input_range, colors, loop, log, result>>

NoFile == [state |-> "none", path |-> "", lines |-> <<>>]
NoResult == [kind |-> "none", value |-> None]
NoProcessor == [lut |-> "identity", interp |-> "none"]
NoLut == [lut |-> "identity", ext |-> ""]
NoCall == [fn |-> "", lut |-> "identity", file_path |-> "",
           preset |-> InitDefaultPreset]
\* a count argument: None, 'auto' or an int
NoCount == [kind |-> "None", val |-> 0]
AutoCount == [kind |-> "auto", val |-> 0]
IntCount(k) == [kind |-> "int", val |-> k]
NoReq == [fileext |-> "", lut |-> "identity", plot_type |-> "None",
          count |-> NoCount]

\* the state between two calls: no frame, no locals
Idle ==
    /\ pc = "idle" /\ stack = <<>> /\ processor = NoProcessor
    /\ called = NoCall
    /\ inlutfiles = NoLut /\ probe = "none"
    /\ file_path = "" /\ preset = InitDefaultPreset /\ preset_ref = "none"
    /\ fault = 0 /\ write_function = "" /\ verbose = FALSE
    /\ data = <<>> /\ title = NoTitle /\ idx = 0 /\ lutfile = NoFile
    /\ req = NoReq /\ plot_type = "None" /\ count = 0
    /\ red_values = <<>> /\ green_values = <<>> /\ blue_values = <<>>
    /\ input_range = <<>> /\ colors = <<>> /\ loop = <<>>
    /\ log = <<>> /\ result = NoResult

Init ==
    /\ program = "none"
    /\ default_preset = InitDefaultPreset
    /\ caller_ref = "none"
    /\ fs = [p \in Paths |-> FALSE]
    /\ fs0 = [p \in Paths |-> FALSE]
    /\ Idle

\* ------------------------------------------------------------ control flow
\* an exception leaves every frame of the call: none of write_1d_lut,
\* write_2d_lut, _write_1d_2d_lut, write_3d_lut, lut_to_lut has a handler
Raise(exc, text) ==
    /\ result' = [kind |-> "raise", value |-> Msg(exc, text, "")]
    /\ stack' = <<>>
    /\ pc' = "done"

\* the running function returns v to the function below it on the stack
ReturnValue(v) ==
    /\ result' = [kind |-> "return", value |-> v]
    /\ stack' = SubSeq(stack, 1, Len(stack) - 1)
    /\ pc' = IF Len(stack) = 1 THEN "done"
             ELSE "after_" \o stack[Len(stack) - 1]

\* the running function calls fn
CallFunction(fn) ==
    /\ stack' = Append(stack, fn)
    /\ pc' = fn

\* the 3D data of a preset is sampled only up to MaxCubeSize points per axis
Runnable(fn, p) == fn = "write_3d_lut" => p.cube_size \in 2..MaxCubeSize

\* the presets a caller can hand to a call: the helper's own dict once it
\* holds it, or a dict of its own
PresetArgs ==
    {<<"fresh", p>> : p \in FreshPresets}
        \cup (IF caller_ref = "alias" THEN {<<"alias", default_preset>>}
              ELSE {})

\* ------------------------------------------------------------- the process
\* the script that is run: a lutLab conversion or plot_that_lut.py
StartProgram ==
    /\ program = "none"
    /\ program' \in {"lutLab", "plotThatLut"}
    /\ UNCHANGED <<default_preset, caller_ref, fs, fs0, pc, stack>>
    /\ UNCHANGED <<callArgs, writerLocals, log, result>>
    /\ UNCHANGED <<called, plotLocals>>

\* CubeLutHelper.get_default_preset: returns the helper's dict itself
get_default_preset ==
    /\ program = "lutLab" /\ pc = "idle"
    /\ caller_ref' = "alias"
    /\ UNCHANGED <<program, default_preset, fs, fs0, pc, stack>>
    /\ UNCHANGED <<callArgs, writerLocals, log, result>>
    /\ UNCHANGED <<called, plotLocals>>

\* a caller stores a cube size into the preset get_default_preset gave it
CallerSetsCubeSize ==
    /\ program = "lutLab" /\ pc = "idle" /\ caller_ref = "alias"
    /\ \E n \in 2..MaxCubeSize :
          default_preset' = [default_preset EXCEPT !.cube_size = n]
    /\ UNCHANGED <<program, caller_ref, fs, fs0, pc, stack>>
    /\ UNCHANGED <<callArgs, writerLocals, log, result>>
    /\ UNCHANGED <<called, plotLocals>>

\* a caller calls write_1d_lut, write_2d_lut or write_3d_lut of CUBE_HELPER
CallWriter ==
    /\ program = "lutLab" /\ pc = "idle"
    /\ \E fn \in {"write_1d_lut", "write_2d_lut", "write_3d_lut"},
          t \in Transforms, path \in Paths, pa \in PresetArgs,
          f \in 0..MaxFault :
          /\ Runnable(fn, pa[2])
          /\ processor' = [lut |-> t, interp |-> "linear"]
          /\ file_path' = path
          /\ preset_ref' = pa[1]
          /\ preset' = pa[2]
          /\ fault' = f
          /\ called' = [fn |-> fn, lut |-> t, file_path |-> path,
                        preset |-> pa[2]]
          /\ CallFunction(fn)
    /\ fs0' = fs
    /\ UNCHANGED <<persistent, inlutfiles, probe, write_function, verbose,
                   writerLocals, log, result>>
    /\ UNCHANGED plotLocals

\* the call is over: its caller has the result, the locals are gone
EndCall ==
    /\ pc = "done"
    /\ pc' = "idle"
    /\ called' = NoCall
    /\ processor' = NoProcessor /\ file_path' = "" /\ preset_ref' = "none"
    /\ inlutfiles' = NoLut /\ probe' = "none"
    /\ preset' = InitDefaultPreset
    /\ fault' = 0 /\ write_function' = "" /\ verbose' = FALSE
    /\ data' = <<>> /\ title' = NoTitle /\ idx' = 0 /\ lutfile' = NoFile
    /\ req' = NoReq /\ plot_type' = "None" /\ count' = 0
    /\ red_values' = <<>> /\ green_values' = <<>> /\ blue_values' = <<>>
    /\ input_range' = <<>> /\ colors' = <<>> /\ loop' = <<>>
    /\ log' = <<>> /\ result' = NoResult
    /\ UNCHANGED <<persistent, fs0, stack>>

\* ------------------------------------------------------- CubeLutHelper
\* _check_output_range rejecting a float range above FLOAT_BOUNDARY
_check_output_range_RejectsBig(p) ==
    IF is_output_int(p) \/ p.output_range.hi > FLOAT_BOUNDARY THEN "raise"
    ELSE "ok"

\* _check_output_range: "raise" for an integer range, "warn" for a float
\* range above FLOAT_BOUNDARY, "ok" otherwise
_check_output_range(p) ==
    IF is_output_int(p) THEN "raise"
    ELSE IF p.output_range.hi > FLOAT_BOUNDARY THEN "warn"
    ELSE "ok"

RangeMessage == "Cube output range is expected to be float."

\* what _check_output_range prints for preset p
RangeLog(p) ==
    CASE _check_output_range(p) = "raise" ->
            <<Msg("error", RangeMessage, "")>>
      [] _check_output_range(p) = "warn" ->
            <<Msg("warning", RangeMessage, "")>>
      [] OTHER -> <<>>

\* open(file_path, 'w+'): the file exists and is empty from now on
OpenFile ==
    /\ fs' = [fs EXCEPT ![file_path] = TRUE]
    /\ lutfile' = [state |-> "open", path |-> file_path, lines |-> <<>>]

\* lutfile.write(...)
WriteLines(ls) == lutfile' = [lutfile EXCEPT !.lines = lutfile.lines \o ls]

\* write_1d_lut refusing the topology, as the abstract helper's does
W1_NotImplemented ==
    /\ pc = "write_1d_lut"
    /\ Raise("NotImplementedError", "write_1d_lut")
    /\ UNCHANGED <<persistent, fs0, callArgs, writerLocals, log>>
    /\ UNCHANGED <<called, plotLocals>>

\* write_1d_lut, lines 70-72: warn, then call write_2d_lut
W1_Warn ==
    /\ pc = "write_1d_lut"
    /\ log' = Append(log, Msg("warning",
                 "1D LUT is not supported in Cube format", ""))
    /\ CallFunction("write_2d_lut")
    /\ UNCHANGED <<persistent, fs0, callArgs, writerLocals, result>>
    /\ UNCHANGED <<called, plotLocals>>

\* write_1d_lut, line 72: the value of write_2d_lut is dropped, the
\* function ends without a return statement
W1_Return ==
    /\ pc = "after_write_1d_lut"
    /\ ReturnValue(None)
    /\ UNCHANGED <<persistent, fs0, callArgs, writerLocals, log>>
    /\ UNCHANGED <<called, plotLocals>>

\* AbstractLUTHelper.write_2d_lut: the 1D/2D path with the helper's own
\* line formatter
W2_Call ==
    /\ pc = "write_2d_lut"
    /\ CallFunction("_write_1d_2d_lut")
    /\ UNCHANGED <<persistent, fs0, callArgs, writerLocals, log, result>>
    /\ UNCHANGED <<called, plotLocals>>

\* AbstractLUTHelper.write_2d_lut gives back what the 1D/2D path gave
W2_Return ==
    /\ pc = "after_write_2d_lut"
    /\ ReturnValue(result.value)
    /\ UNCHANGED <<persistent, fs0, callArgs, writerLocals, log>>
    /\ UNCHANGED <<called, plotLocals>>

\* _write_1d_2d_lut, line 51
W12_Check ==
    /\ pc = "_write_1d_2d_lut"
    /\ log' = log \o RangeLog(preset)
    /\ IF _check_output_range(preset) = "raise"
          THEN Raise("CubeHelperException", RangeMessage)
          ELSE pc' = "w12_data" /\ UNCHANGED <<stack, result>>
    /\ UNCHANGED <<persistent, fs0, callArgs, writerLocals>>
    /\ UNCHANGED <<called, plotLocals>>

\* _write_1d_2d_lut, lines 53-54
W12_Data ==
    /\ pc = "w12_data"
    /\ data' = _get_1d_data(processor.lut, preset)
    /\ title' = preset.title
    /\ pc' = "w12_open"
    /\ UNCHANGED <<persistent, fs0, stack, callArgs, idx, lutfile, log,
                   result>>
    /\ UNCHANGED <<called, plotLocals>>

\* _write_1d_2d_lut, line 55
W12_Open ==
    /\ pc = "w12_open"
    /\ OpenFile
    /\ pc' = "w12_title"
    /\ UNCHANGED <<program, default_preset, caller_ref, fs0, stack, callArgs,
                   data, title, idx, log, result>>
    /\ UNCHANGED <<called, plotLocals>>

\* _write_1d_2d_lut, lines 58-60
W12_Title ==
    /\ pc = "w12_title"
    /\ title' = IF title = NoTitle
                THEN get_generated_title(file_path, preset) ELSE title
    /\ WriteLines(TitleLines(title'))
    /\ pc' = "w12_size"
    /\ UNCHANGED <<persistent, fs0, stack, callArgs, data, idx, log, result>>
    /\ UNCHANGED <<called, plotLocals>>

\* _write_1d_2d_lut, line 62
W12_Size ==
    /\ pc = "w12_size"
    /\ WriteLines(SizeLines(CUBE_1D, Len(data)))
    /\ idx' = 1
    /\ pc' = "w12_loop"
    /\ UNCHANGED <<persistent, fs0, stack, callArgs, data, title, log,
                   result>>
    /\ UNCHANGED <<called, plotLocals>>

\* _write_1d_2d_lut, lines 64-65: one pass of the loop; line_function may
\* raise, and nothing catches it
W12_Line ==
    /\ pc = "w12_loop" /\ idx <= Len(data)
    /\ IF idx = fault
          THEN Raise("Exception", "line_function") /\ UNCHANGED <<idx, lutfile>>
          ELSE /\ WriteLines(<<_get_rgb_value_line(preset, data[idx])>>)
               /\ idx' = idx + 1
               /\ UNCHANGED <<pc, stack, result>>
    /\ UNCHANGED <<persistent, fs0, callArgs, data, title, log>>
    /\ UNCHANGED <<called, plotLocals>>

\* _write_1d_2d_lut, lines 66-67: close, print the success message, and
\* end without a return statement
W12_Close ==
    /\ pc = "w12_loop" /\ idx > Len(data)
    /\ lutfile' = [lutfile EXCEPT !.state = "closed"]
    /\ log' = Append(log, print_success_message(get_export_message(file_path)))
    /\ ReturnValue(None)
    /\ UNCHANGED <<persistent, fs0, callArgs, data, title, idx>>
    /\ UNCHANGED <<called, plotLocals>>

\* write_3d_lut, lines 75-77
W3_Data ==
    /\ pc = "write_3d_lut"
    /\ data' = _get_3d_data(processor.lut, preset)
    /\ title' = preset.title
    /\ pc' = "w3_open"
    /\ UNCHANGED <<persistent, fs0, stack, callArgs, idx, lutfile, log,
                   result>>
    /\ UNCHANGED <<called, plotLocals>>

\* write_3d_lut, line 78
W3_Open ==
    /\ pc = "w3_open"
    /\ OpenFile
    /\ pc' = "w3_check"
    /\ UNCHANGED <<program, default_preset, caller_ref, fs0, stack, callArgs,
                   data, title, idx, log, result>>
    /\ UNCHANGED <<called, plotLocals>>

\* write_3d_lut, line 80
W3_Check ==
    /\ pc = "w3_check"
    /\ log' = log \o RangeLog(preset)
    /\ IF _check_output_range(preset) = "raise"
          THEN Raise("CubeHelperException", RangeMessage)
          ELSE pc' = "w3_title" /\ UNCHANGED <<stack, result>>
    /\ UNCHANGED <<persistent, fs0, callArgs, writerLocals>>
    /\ UNCHANGED <<called, plotLocals>>

\* write_3d_lut, lines 83-85
W3_Title ==
    /\ pc = "w3_title"
    /\ title' = IF title = NoTitle
                THEN get_generated_title(file_path, preset) ELSE title
    /\ WriteLines(TitleLines(title'))
    /\ pc' = "w3_size"
    /\ UNCHANGED <<persistent, fs0, stack, callArgs, data, idx, log, result>>
    /\ UNCHANGED <<called, plotLocals>>

\* W3_Size writing len(data) as the size, as the 1D/2D path does
W3_Size_LenData ==
    /\ pc = "w3_size"
    /\ WriteLines(SizeLines(CUBE_3D, Len(data)))
    /\ idx' = 1
    /\ pc' = "w3_loop"
    /\ UNCHANGED <<persistent, fs0, stack, callArgs, data, title, log,
                   result>>
    /\ UNCHANGED <<called, plotLocals>>

\* write_3d_lut, line 87
W3_Size ==
    /\ pc = "w3_size"
    /\ WriteLines(SizeLines(CUBE_3D, preset.cube_size))
    /\ idx' = 1
    /\ pc' = "w3_loop"
    /\ UNCHANGED <<persistent, fs0, stack, callArgs, data, title, log,
                   result>>
    /\ UNCHANGED <<called, plotLocals>>

\* write_3d_lut, lines 89-90: one pass of the loop
W3_Line ==
    /\ pc = "w3_loop" /\ idx <= Len(data)
    /\ IF idx = fault
          THEN Raise("Exception", "line_function") /\ UNCHANGED <<idx, lutfile>>
          ELSE /\ WriteLines(<<_get_rgb_value_line(preset, data[idx])>>)
               /\ idx' = idx + 1
               /\ UNCHANGED <<pc, stack, result>>
    /\ UNCHANGED <<persistent, fs0, callArgs, data, title, log>>
    /\ UNCHANGED <<called, plotLocals>>

\* write_3d_lut, lines 91-92: close, print the success message, and end
\* without a return statement
W3_Close ==
    /\ pc = "w3_loop" /\ idx > Len(data)
    /\ lutfile' = [lutfile EXCEPT !.state = "closed"]
    /\ log' = Append(log, print_success_message(get_export_message(file_path)))
    /\ ReturnValue(None)
    /\ UNCHANGED <<persistent, fs0, callArgs, data, title, idx>>
    /\ UNCHANGED <<called, plotLocals>>

\* ------------------------------------------------------------- lut_to_lut
\* export_tool_helper: the write function of CUBE_HELPER for an out_type
WriteFunctionOf(out_type) ==
    CASE out_type = "1D" -> "write_1d_lut"
      [] out_type = "2D" -> "write_2d_lut"
      [] OTHER -> "write_3d_lut"

\* export_tool_helper.get_preset_and_write_function: a new preset, the
\* format's default with the overrides that are given (0: no cube size)
MergeOverrides(base, ov) ==
    [base EXCEPT !.output_range = IF ov.output_range \in Ranges
                                  THEN ov.output_range ELSE @,
                 !.cube_size = IF ov.out_cube_size > 0
                               THEN ov.out_cube_size ELSE @]

NoRange == [kind |-> "None", lo |-> 0, hi |-> 0]
Overrides ==
    [output_range : {NoRange, IntTenBit}, out_cube_size : 0..MaxCubeSize \ {1}]

\* ocio_helper.is_3d_lut: the processor has channel crosstalk, or the file
\* is a matrix file
is_3d_lut(proc, lutfile_) ==
    hasChannelCrosstalk(proc.lut) \/ lutfile_.ext = ".spimtx"

\* the preset argument of lut_to_lut: None, the helper's dict, or a dict of
\* the caller
L2LPresetArgs ==
    {<<"None", InitDefaultPreset>>}
        \cup {pa \in PresetArgs : /\ pa[2].output_range = FloatUnit
                                  /\ pa[2].title # NoTitle}

\* lut_to_lut, lines 83-116: the preset and write function are resolved,
\* then the smoothing option is stored into the preset
L2L_Call ==
    /\ program = "lutLab" /\ pc = "idle"
    /\ \E t \in {"identity", "rotate"}, e \in {".csp", ".spimtx"},
          out_type \in {"None", "1D", "2D", "3D"}, path \in Paths,
          smooth_size \in {0, 2}, v \in BOOLEAN,
          pa \in L2LPresetArgs, ov \in Overrides :
          LET given == pa[1] # "None"
              p0 == IF given THEN pa[2] ELSE MergeOverrides(default_preset, ov)
              p1 == IF smooth_size # 0 THEN [p0 EXCEPT !.smooth = smooth_size]
                    ELSE p0
          IN  /\ given => (ov = [output_range |-> NoRange, out_cube_size |-> 0]
                           /\ out_type # "None")
              /\ Runnable(WriteFunctionOf(out_type), p1)
              /\ inlutfiles' = [lut |-> t, ext |-> e]
              /\ called' = [fn |-> "lut_to_lut", lut |-> t,
                            file_path |-> path, preset |-> p1]
              /\ file_path' = path
              /\ verbose' = v
              /\ IF ~given /\ out_type = "None"
                    THEN /\ result' = [kind |-> "raise", value |->
                                Msg("LutToLutException",
                                    "Specify out_type/out_format or a preset.",
                                    "")]
                         /\ stack' = <<>> /\ pc' = "done"
                         /\ UNCHANGED <<preset, preset_ref, write_function,
                                        default_preset>>
                    ELSE /\ write_function' = WriteFunctionOf(out_type)
                         /\ preset' = p1
                         /\ preset_ref' = IF given THEN pa[1] ELSE "fresh"
                         /\ default_preset' = IF given /\ pa[1] = "alias"
                                              THEN p1 ELSE default_preset
                         /\ stack' = <<"lut_to_lut">> /\ pc' = "l2l_processor"
                         /\ UNCHANGED result
    /\ fs0' = fs
    /\ UNCHANGED <<program, caller_ref, fs, processor, probe, fault,
                   writerLocals, log>>
    /\ UNCHANGED plotLocals

\* lut_to_lut, lines 117-124: a linear processor, replaced by a tetrahedral
\* one when the LUT is a 3D LUT
L2L_Processor ==
    /\ pc = "l2l_processor"
    /\ LET linear == [lut |-> inlutfiles.lut, interp |-> "linear"]
       IN  /\ probe' = IF is_3d_lut(linear, inlutfiles) THEN "3D"
                        ELSE "1D/2D"
           /\ processor' = IF is_3d_lut(linear, inlutfiles)
                           THEN [lut |-> inlutfiles.lut,
                                 interp |-> "tetrahedral"]
                           ELSE linear
    /\ pc' = "l2l_write"
    /\ UNCHANGED <<persistent, fs0, stack, inlutfiles, file_path, preset,
                   preset_ref, fault, write_function, verbose, writerLocals,
                   log, result>>
    /\ UNCHANGED <<called, plotLocals>>

\* lut_to_lut, line 126: the call of the write function
L2L_Write ==
    /\ pc = "l2l_write"
    /\ CallFunction(write_function)
    /\ UNCHANGED <<persistent, fs0, callArgs, writerLocals, log, result>>
    /\ UNCHANGED <<called, plotLocals>>

\* lut_to_lut, lines 126-128: message is what the write function gave back,
\* printed in verbose mode
L2L_Return ==
    /\ pc = "after_lut_to_lut"
    /\ log' = IF verbose THEN Append(log, print_success_message(result.value))
              ELSE log
    /\ ReturnValue(None)
    /\ UNCHANGED <<persistent, fs0, callArgs, writerLocals>>
    /\ UNCHANGED <<called, plotLocals>>

\* ---------------------------------------------------------- plot_that_lut
\* the count arguments plot_that_lut is called with
CountArgs == {NoCount, AutoCount} \cup {IntCount(k) : k \in 0..MaxCount}

\* ResolvePlotType without the matrix extension test
ResolvePlotType_NoMatrixTest(pt, t, fileext) ==
    IF pt \in {"None", ""} \/ pt = "auto"
    THEN IF hasChannelCrosstalk(t) THEN "cube" ELSE "curve"
    ELSE pt

\* plot_that_lut, lines 278-282: the plot type after auto-detection
ResolvePlotType(pt, t, fileext) ==
    IF pt \in {"None", ""} \/ pt = "auto"
    THEN IF hasChannelCrosstalk(t) \/ fileext = ".spimtx" THEN "cube"
         ELSE "curve"
    ELSE pt

\* plot_that_lut, lines 278-279: hasChannelCrosstalk() is asked only when
\* no plot type, or 'auto', is requested
Probed(pt, t, fileext) ==
    IF pt \in {"None", ""} \/ pt = "auto"
    THEN IF hasChannelCrosstalk(t) \/ fileext = ".spimtx" THEN "3D"
         ELSE "1D/2D"
    ELSE "none"

\* plot_that_lut, lines 283-288: the count after defaulting (not count is
\* true of None and of 0)
ResolveCount(c, pt) ==
    IF c.kind = "None" \/ (c.kind = "int" /\ c.val = 0) \/ c.kind = "auto"
    THEN IF pt = "curve" THEN DEFAULT_SAMPLE ELSE DEFAULT_CUBE_SIZE
    ELSE c.val

\* plot_that_lut, lines 264-298: extension check, linear processor, plot
\* type and count resolution, dispatch
PlotThatLut ==
    /\ program = "plotThatLut" /\ pc = "idle"
    /\ \E fileext \in {"", ".xyz", ".cube", ".spimtx"}, t \in Transforms,
          pt \in {"None", "", "auto", "curve", "cube", "sphere"},
          c \in CountArgs :
          LET rpt == ResolvePlotType(pt, t, fileext)
          IN  /\ req' = [fileext |-> fileext, lut |-> t, plot_type |-> pt,
                         count |-> c]
              /\ called' = [NoCall EXCEPT !.fn = "plot_that_lut", !.lut = t]
              /\ IF fileext = ""
                    THEN /\ Raise("Exception", "Couldn't extract extension")
                         /\ UNCHANGED <<processor, probe, plot_type, count>>
                    ELSE IF fileext \notin OCIO_LUTS_FORMATS
                    THEN /\ Raise("Exception", "file format aren't supported")
                         /\ UNCHANGED <<processor, probe, plot_type, count>>
                    ELSE /\ processor' = [lut |-> t, interp |-> "linear"]
                         /\ probe' = Probed(pt, t, fileext)
                         /\ plot_type' = rpt
                         /\ count' = ResolveCount(c, rpt)
                         /\ IF rpt = "curve"
                               THEN /\ stack' = <<"plot_that_lut", "plot_curve">>
                                    /\ pc' = "plot_curve"
                                    /\ UNCHANGED result
                               ELSE IF rpt = "cube"
                               THEN /\ stack' = <<"plot_that_lut", "plot_cube">>
                                    /\ pc' = "plot_cube"
                                    /\ UNCHANGED result
                               ELSE Raise("Exception", "Unknown plot type")
    /\ UNCHANGED <<persistent, fs0, inlutfiles, file_path, preset, preset_ref,
                   fault, write_function, verbose, writerLocals, red_values,
                   green_values, blue_values, input_range, colors, loop, log>>

\* plot_that_lut, lines 292 and 294: return what the plot function gave
PlotThatLut_Return ==
    /\ pc = "after_plot_that_lut"
    /\ ReturnValue(result.value)
    /\ UNCHANGED <<persistent, fs0, callArgs, writerLocals, plotLocals, log>>
    /\ UNCHANGED called

\* a module that imports plot_that_lut calls plot_curve or plot_cube itself
CallPlot ==
    /\ program = "plotThatLut" /\ pc = "idle"
    /\ \E fn \in {"plot_curve", "plot_cube"}, t \in Transforms,
          k \in 0..MaxCount :
          /\ processor' = [lut |-> t, interp |-> "linear"]
          /\ count' = k
          /\ called' = [NoCall EXCEPT !.fn = fn, !.lut = t]
          /\ CallFunction(fn)
    /\ UNCHANGED <<persistent, fs0, inlutfiles, probe, file_path, preset, preset_ref,
                   fault, write_function, verbose, writerLocals, req,
                   plot_type, red_values, green_values, blue_values,
                   input_range, colors, loop, log, result>>

\* CurveCoordinate with max_value = samples_count (the - 1.0 forgotten)
CurveCoordinate_NoMinusOne(n, samples_count) == <<n, samples_count>>

\* plot_curve, lines 115 and 122: x = n/max_value, max_value = count - 1.0
CurveCoordinate(n, samples_count) == <<n, samples_count - 1>>

\* plot_cube, lines 167 and 177-179: the normalised lattice point
NormalizedPoint(l, cube_size) ==
    << <<l[1], cube_size - 1>>, <<l[2], cube_size - 1>>,
       <<l[3], cube_size - 1>> >>

\* show_plot in cherry_py_mode: the figure is saved, an html string returned
show_plot == Msg("str", "<img src=", "img/export.png")

\* plot_curve, lines 115-119 (max_value is count - 1.0, kept in the
\* fractions); run up to MaxCount samples
PlotCurve_Init ==
    /\ pc = "plot_curve" /\ count <= MaxCount
    /\ red_values' = <<>> /\ green_values' = <<>> /\ blue_values' = <<>>
    /\ input_range' = <<>>
    /\ loop' = <<0>>
    /\ pc' = "curve_loop"
    /\ UNCHANGED <<persistent, fs0, stack, callArgs, writerLocals, req,
                   plot_type, count, colors, log, result>>
    /\ UNCHANGED called

\* plot_curve, lines 121-127: one pass of the loop; n/max_value divides by
\* zero when samples_count is 1
PlotCurve_Step ==
    /\ pc = "curve_loop" /\ loop[1] < count
    /\ LET n == loop[1]
           max_value == count - 1
           x == CurveCoordinate(n, count)
           res == applyRGB(processor.lut, <<x, x, x>>)
       IN  IF max_value = 0
           THEN /\ Raise("ZeroDivisionError", "float division by zero")
                /\ UNCHANGED <<red_values, green_values, blue_values,
                               input_range, loop>>
           ELSE /\ red_values' = Append(red_values, res[1])
                /\ green_values' = Append(green_values, res[2])
                /\ blue_values' = Append(blue_values, res[3])
                /\ input_range' = Append(input_range, x)
                /\ loop' = <<n + 1>>
                /\ UNCHANGED <<pc, stack, result>>
    /\ UNCHANGED <<persistent, fs0, callArgs, writerLocals, req, plot_type,
                   count, colors, log>>
    /\ UNCHANGED called

\* plot_curve, lines 129-140: the curves are plotted and shown
PlotCurve_Show ==
    /\ pc = "curve_loop" /\ loop[1] >= count
    /\ ReturnValue(show_plot)
    /\ UNCHANGED <<persistent, fs0, callArgs, writerLocals, plotLocals, log>>
    /\ UNCHANGED called

\* plot_cube, lines 166-171; run up to MaxCubeSize points per axis
PlotCube_Init ==
    /\ pc = "plot_cube" /\ count <= MaxCubeSize
    /\ red_values' = <<>> /\ green_values' = <<>> /\ blue_values' = <<>>
    /\ colors' = <<>>
    /\ loop' = <<0, 0, 0>>
    /\ pc' = "cube_loop"
    /\ UNCHANGED <<persistent, fs0, stack, callArgs, writerLocals, req,
                   plot_type, count, input_range, log, result>>
    /\ UNCHANGED called

\* NextLattice with the loops nested the other way round: R innermost
NextLattice_RedInnermost(l, n) ==
    IF l[1] + 1 < n THEN <<l[1] + 1, l[2], l[3]>>
    ELSE IF l[2] + 1 < n THEN <<0, l[2] + 1, l[3]>>
    ELSE IF l[3] + 1 < n THEN <<0, 0, l[3] + 1>>
    ELSE <<n, 0, 0>>

\* the next <<r, g, b>> of the three nested loops over range(0, cube_size)
NextLattice(l, n) ==
    IF l[3] + 1 < n THEN <<l[1], l[2], l[3] + 1>>
    ELSE IF l[2] + 1 < n THEN <<l[1], l[2] + 1, 0>>
    ELSE <<l[1] + 1, 0, 0>>

\* plot_cube, lines 173-187: one pass of the innermost loop
PlotCube_Step ==
    /\ pc = "cube_loop" /\ loop[1] < count
    /\ LET max_value == count - 1
           norm == NormalizedPoint(loop, count)
           res == applyRGB(processor.lut, norm)
       IN  IF max_value = 0
           THEN /\ Raise("ZeroDivisionError", "float division by zero")
                /\ UNCHANGED <<red_values, green_values, blue_values,
                               colors, loop>>
           ELSE /\ red_values' = Append(red_values, res[1])
                /\ green_values' = Append(green_values, res[2])
                /\ blue_values' = Append(blue_values, res[3])
                /\ colors' = Append(colors, norm)
                /\ loop' = NextLattice(loop, count)
                /\ UNCHANGED <<pc, stack, result>>
    /\ UNCHANGED <<persistent, fs0, callArgs, writerLocals, req, plot_type,
                   count, input_range, log>>
    /\ UNCHANGED called

\* plot_cube, lines 189-202: min(red_values) fails on an empty list
PlotCube_Show ==
    /\ pc = "cube_loop" /\ loop[1] >= count
    /\ IF red_values = <<>>
          THEN Raise("ValueError", "min() arg is an empty sequence")
          ELSE ReturnValue(show_plot)
    /\ UNCHANGED <<persistent, fs0, callArgs, writerLocals, plotLocals, log>>
    /\ UNCHANGED called

Next ==
    \/ PlotThatLut
    \/ PlotThatLut_Return
    \/ CallPlot
    \/ PlotCurve_Init
    \/ PlotCurve_Step
    \/ PlotCurve_Show
    \/ PlotCube_Init
    \/ PlotCube_Step
    \/ PlotCube_Show
    \/ L2L_Call
    \/ L2L_Processor
    \/ L2L_Write
    \/ L2L_Return
    \/ StartProgram
    \/ get_default_preset
    \/ CallerSetsCubeSize
    \/ CallWriter
    \/ EndCall
    \/ W1_Warn
    \/ W1_Return
    \/ W2_Call
    \/ W2_Return
    \/ W12_Check
    \/ W12_Data
    \/ W12_Open
    \/ W12_Title
    \/ W12_Size
    \/ W12_Line
    \/ W12_Close
    \/ W3_Data
    \/ W3_Open
    \/ W3_Check
    \/ W3_Title
    \/ W3_Size
    \/ W3_Line
    \/ W3_Close

Spec == Init /\ [][Next]_vars

\* ------------------------------------------------------------------ claims
\* the Cube write function the current call runs, "" when it runs none
Writer ==
    IF called.fn = "lut_to_lut" THEN write_function
    ELSE IF called.fn \in {"write_1d_lut", "write_2d_lut", "write_3d_lut"}
    THEN called.fn
    ELSE ""

RangeError ==
    /\ result.kind = "raise"
    /\ result.value.level = "CubeHelperException"

\* C1: a Cube write with an integer output range fails with the range error
\* and never opens, creates or truncates the destination file: the range is
\* checked before the file is opened.
C1_RangeCheckedBeforeOpen ==
    (Writer # "" /\ is_output_int(preset)) =>
        /\ lutfile.state = "none"
        /\ fs = fs0
        /\ pc = "done" => RangeError

\* C2: when a Cube write is over, whichever way it ended, the file object
\* it opened is closed.
C2_FileClosedOnEveryExit ==
    (Writer # "" /\ pc = "done") => lutfile.state # "open"

\* cube_size^3
Cube(n) == n * n * n

\* a write_3d_lut call that returned normally
Written3D ==
    /\ Writer = "write_3d_lut" /\ pc = "done" /\ result.kind = "return"
    /\ preset.cube_size >= 2 /\ ~is_output_int(preset)

\* C3 as stated: the file of a successful write_3d_lut begins with the line
\* LUT_3D_SIZE n, followed by exactly n^3 sample lines in the order of the
\* sampled data.
C3_FileBeginsWithSizeLine ==
    Written3D =>
        /\ Len(lutfile.lines) = 1 + Cube(preset.cube_size)
        /\ lutfile.lines[1] = Line(CUBE_3D, NoTitle, preset.cube_size, <<>>)
        /\ \A i \in 1..Cube(preset.cube_size) :
              lutfile.lines[1 + i] = Line("data", NoTitle, 0, data[i])

\* C3 amended: the file of a successful write_3d_lut is the TITLE line (the
\* preset's title, or the generated one when it is None), a blank line, the
\* line LUT_3D_SIZE n, a blank line, and then exactly n^3 sample lines, one
\* per sample in the order of the sampled data; nothing follows.
C3_TitleThenSizeThenSamples ==
    Written3D =>
        /\ Len(data) = Cube(preset.cube_size)
        /\ Len(lutfile.lines) = 4 + Cube(preset.cube_size)
        /\ lutfile.lines[1] =
              Line("TITLE", IF preset.title = NoTitle
                            THEN get_generated_title(file_path, preset)
                            ELSE preset.title, 0, <<>>)
        /\ lutfile.lines[2] = BlankLine
        /\ lutfile.lines[3] = Line(CUBE_3D, NoTitle, preset.cube_size, <<>>)
        /\ lutfile.lines[4] = BlankLine
        /\ \A i \in 1..Cube(preset.cube_size) :
              lutfile.lines[4 + i] = Line("data", NoTitle, 0, data[i])
        /\ lutfile.path = called.file_path

\* C3 witness: a cube of 3 points per axis was written, 27 sample lines
C3_Witness ==
    /\ Written3D /\ preset.cube_size = 3
    /\ Len(lutfile.lines) = 31 /\ lutfile.state = "closed"

\* plot_cube is sampling or has sampled
InPlotCube == pc = "cube_loop" /\ count >= 2

\* C4: plot_cube evaluates the transform cube_size^3 times, R outermost and
\* B innermost: while the loops run, the samples collected so far are those
\* of the indexes below r*cube_size^2 + g*cube_size + b, and the sample of
\* index i is the transform of (r, g, b)/(cube_size - 1); when the loops
\* are over there are exactly cube_size^3 of them.
C4_CubeOrder ==
    InPlotCube =>
        /\ Len(red_values) =
              loop[1] * count * count + loop[2] * count + loop[3]
        /\ Len(green_values) = Len(red_values)
        /\ Len(blue_values) = Len(red_values)
        /\ Len(colors) = Len(red_values)
        /\ loop[1] >= count => Len(red_values) = Cube(count)
        /\ \A i \in 0..(Len(red_values) - 1) :
              LET r == i \div (count * count)
                  g == (i \div count) % count
                  b == i % count
                  p == << <<r, count - 1>>, <<g, count - 1>>,
                          <<b, count - 1>> >>
              IN  /\ i = r * count * count + g * count + b
                  /\ colors[i + 1] = p
                  /\ <<red_values[i + 1], green_values[i + 1],
                       blue_values[i + 1]>> = applyRGB(processor.lut, p)

\* C4 witness: the loops of a 3x3x3 cube are over, with a transform that
\* mixes the channels
C4_Witness ==
    /\ InPlotCube /\ count = 3 /\ loop[1] >= count
    /\ Len(red_values) = 27 /\ processor.lut = "rotate"

\* a / b < c / d for fractions of positive denominators
FracLess(x, y) == x[1] * y[2] < y[1] * x[2]

\* plot_curve has left its loop
CurveSampled == pc = "curve_loop" /\ count >= 2 /\ loop[1] >= count

\* C5: for count >= 2 plot_curve collects exactly count samples; the
\* coordinate of sample n is n/(count - 1), so the coordinates increase
\* strictly from 0 to 1; each sample is the transform of the grey triple of
\* its own coordinate, and the four lists stay index-aligned.
C5_CurveSamples ==
    /\ (pc = "curve_loop" /\ count >= 2) =>
          /\ Len(input_range) = loop[1]
          /\ Len(red_values) = loop[1]
          /\ Len(green_values) = loop[1]
          /\ Len(blue_values) = loop[1]
          /\ \A i \in 1..Len(input_range) :
                /\ input_range[i][2] > 0
                /\ input_range[i][1] * (count - 1)
                      = (i - 1) * input_range[i][2]
                /\ <<red_values[i], green_values[i], blue_values[i]>> =
                      applyRGB(processor.lut, <<input_range[i],
                                                input_range[i],
                                                input_range[i]>>)
          /\ \A i \in 1..(Len(input_range) - 1) :
                FracLess(input_range[i], input_range[i + 1])
    /\ CurveSampled =>
          /\ Len(input_range) = count
          /\ input_range[1][1] = 0
          /\ input_range[count][1] = input_range[count][2]

\* C5 witness: a curve of MaxCount samples has been sampled
C5_Witness ==
    /\ CurveSampled /\ count = 4 /\ Len(red_values) = 4
    /\ processor.lut = "invert"

\* a call that reached the sampling loops of plot_curve or plot_cube
Sampling ==
    \/ called.fn \in {"plot_curve", "plot_cube"}
    \/ called.fn = "plot_that_lut" /\ plot_type \in {"curve", "cube"}

\* C6: sampling with a count (or cube size) below 2 fails with the
\* dedicated InvalidSampleCount error: it never returns, and never fails
\* with another error.
C6_InvalidSampleCount ==
    (Sampling /\ count < 2 /\ pc = "done") =>
        /\ result.kind = "raise"
        /\ result.value.level = "InvalidSampleCount"

\* the warning of write_1d_lut
Warning1D == Msg("warning", "1D LUT is not supported in Cube format", "")

\* write_1d_lut has printed its warning
Entered1D ==
    /\ Writer = "write_1d_lut"
    /\ pc \notin {"idle", "l2l_processor", "l2l_write", "write_1d_lut"}

\* the write function fn is over: it has returned to its caller, or raised
WriterOver(fn) ==
    /\ Writer = fn
    /\ \/ called.fn = fn /\ pc = "done"
       \/ called.fn = "lut_to_lut" /\ pc = "after_lut_to_lut"
       \/ called.fn = "lut_to_lut" /\ pc = "done" /\ result.kind = "raise"

\* the outcome of the 2D write of the call's transform, path and preset:
\* what it returns or raises, the file it leaves, what it prints
Faulty == fault \in 1..Data1dSize
Expected2DResult ==
    IF is_output_int(called.preset)
    THEN [kind |-> "raise",
          value |-> Msg("CubeHelperException", RangeMessage, "")]
    ELSE IF Faulty
    THEN [kind |-> "raise", value |-> Msg("Exception", "line_function", "")]
    ELSE [kind |-> "return", value |-> None]
Expected2DLines ==
    TitleLines(IF called.preset.title = NoTitle
               THEN get_generated_title(called.file_path, called.preset)
               ELSE called.preset.title)
      \o SizeLines(CUBE_1D, Data1dSize)
      \o [i \in 1..(IF Faulty THEN fault - 1 ELSE Data1dSize) |->
            Line("data", NoTitle, 0,
                 _get_1d_data(called.lut, called.preset)[i])]
Expected2DFile ==
    IF is_output_int(called.preset) THEN NoFile
    ELSE [state |-> IF Faulty THEN "open" ELSE "closed",
          path |-> called.file_path, lines |-> Expected2DLines]
Expected2DFs ==
    IF is_output_int(called.preset) THEN fs0
    ELSE [fs0 EXCEPT ![called.file_path] = TRUE]
Expected2DLog ==
    RangeLog(called.preset)
      \o (IF is_output_int(called.preset) \/ Faulty THEN <<>>
          ELSE <<print_success_message(
                    get_export_message(called.file_path))>>)

\* two results are the same outcome: both a normal return, or the same error
SameOutcome(r1, r2) ==
    /\ r1.kind = r2.kind
    /\ r1.kind = "raise" => r1.value = r2.value

\* C7: write_1d_lut does not fail for the unsupported topology: it prints
\* one warning first, then runs the 2D write with the transform, path and
\* preset it was given, and ends as write_2d_lut ends for those arguments
\* (normal return or the same error, same file, same messages after the
\* warning).
C7_OneDIsWarningThenTwoD ==
    /\ Entered1D =>
          /\ log # <<>> /\ log[1] = Warning1D
          /\ \A i \in 2..Len(log) : log[i] # Warning1D
          /\ processor.lut = called.lut
          /\ file_path = called.file_path
          /\ preset = called.preset
          /\ result.kind = "raise" =>
                result.value.level # "NotImplementedError"
    /\ WriterOver("write_2d_lut") =>
          /\ SameOutcome(result, Expected2DResult)
          /\ lutfile = Expected2DFile
          /\ fs = Expected2DFs
          /\ log = Expected2DLog
    /\ WriterOver("write_1d_lut") =>
          /\ SameOutcome(result, Expected2DResult)
          /\ lutfile = Expected2DFile
          /\ fs = Expected2DFs
          /\ log = <<Warning1D>> \o Expected2DLog

\* C7 witness: a direct write_1d_lut call has written its file
C7_Witness ==
    /\ called.fn = "write_1d_lut" /\ pc = "done"
    /\ result.kind = "return" /\ lutfile.state = "closed"
    /\ Len(lutfile.lines) = 4 + Data1dSize /\ log[1] = Warning1D

\* C8: a Cube write that succeeds (the 1D/2D path, write_1d_lut,
\* write_3d_lut) returns the success message naming the output path, so
\* that is the message lut_to_lut receives from its write function.
C8_SuccessMessageReturned ==
    /\ pc = "after_write_2d_lut" =>
          result.value = get_export_message(file_path)
    /\ (called.fn \in {"write_1d_lut", "write_3d_lut"} /\ pc = "done"
          /\ result.kind = "return") =>
          result.value = get_export_message(file_path)
    /\ pc = "after_lut_to_lut" =>
          result.value = get_export_message(file_path)

\* C9: the default preset of the Cube helper keeps its built-in values
\* whatever was done before, and the preset of a write is the one that was
\* handed to it.
C9_DefaultPresetImmutable ==
    /\ default_preset = InitDefaultPreset
    /\ Writer # "" => preset = called.preset

\* plot_that_lut got past its extension checks
Resolved ==
    /\ called.fn = "plot_that_lut"
    /\ req.fileext # "" /\ req.fileext \in OCIO_LUTS_FORMATS

\* C10: with no plot type, or 'auto', plot_that_lut plots a cube exactly
\* when the transform has channel crosstalk or the extension is .spimtx,
\* and a curve otherwise; a requested 'curve' or 'cube' is kept as it is;
\* the function that runs is the one of the resolved type.
C10_TopologyDetection ==
    Resolved =>
        /\ req.plot_type \in {"None", "", "auto"} =>
              /\ plot_type \in {"cube", "curve"}
              /\ plot_type = "cube" <=>
                    (req.lut = "rotate" \/ req.fileext = ".spimtx")
        /\ req.plot_type \in {"curve", "cube"} => plot_type = req.plot_type
        /\ Len(stack) = 2 =>
              stack[2] = (IF plot_type = "cube" THEN "plot_cube"
                          ELSE "plot_curve")
        /\ plot_type \in {"cube", "curve"} =>
              ~(result.kind = "raise"
                  /\ result.value.text = "Unknown plot type")

\* C10 witness: a matrix file without crosstalk, no plot type requested,
\* is being plotted as a cube
C10_Witness ==
    /\ Resolved /\ req.plot_type = "None" /\ req.fileext = ".spimtx"
    /\ req.lut = "identity" /\ plot_type = "cube" /\ pc = "cube_loop"

\* the messages of the output-range check
RangeErrorMsg == Msg("error", RangeMessage, "")
RangeWarningMsg == Msg("warning", RangeMessage, "")

\* the number of entries of a message sequence equal to m
Occurrences(m, msgs) == Cardinality({i \in 1..Len(msgs) : msgs[i] = m})

\* the write function of the call has run its output-range check
RangeChecked ==
    /\ Writer # ""
    /\ pc \notin {"idle", "l2l_processor", "l2l_write", "write_1d_lut",
                  "write_2d_lut", "_write_1d_2d_lut", "write_3d_lut",
                  "w3_open", "w3_check"}

\* the line formatter fails on no sample of the call
NoFault == fault = 0

\* C11: the output-range check has three outcomes.  An integer range: the
\* error is printed and CubeHelperException raised.  A float range whose
\* upper bound is above FLOAT_BOUNDARY: one warning, no error, no exception,
\* and the write goes on to its normal end with the file closed.  Any other
\* float range: nothing is printed.  No float range is ever rejected.
C11_RangeCheckOutcomes ==
    /\ (RangeChecked /\ preset.output_range.kind = "int") =>
          /\ pc = "done" /\ RangeError
          /\ Occurrences(RangeErrorMsg, log) = 1
          /\ Occurrences(RangeWarningMsg, log) = 0
    /\ (RangeChecked /\ preset.output_range.kind = "float"
          /\ preset.output_range.hi > FLOAT_BOUNDARY) =>
          /\ Occurrences(RangeWarningMsg, log) = 1
          /\ Occurrences(RangeErrorMsg, log) = 0
    /\ (RangeChecked /\ preset.output_range.kind = "float"
          /\ preset.output_range.hi <= FLOAT_BOUNDARY) =>
          /\ Occurrences(RangeWarningMsg, log) = 0
          /\ Occurrences(RangeErrorMsg, log) = 0
    /\ (Writer # "" /\ preset.output_range.kind = "float") =>
          /\ ~RangeError
          /\ (pc = "done" /\ NoFault) =>
                /\ result.kind = "return"
                /\ lutfile.state = "closed"
                /\ Len(lutfile.lines) = 4 + Len(data)

\* C11 witness: a 3D write with the output range [0.0, 200.0] has ended
\* normally, after the warning
C11_Witness ==
    /\ called.fn = "write_3d_lut" /\ pc = "done"
    /\ preset.output_range = FloatBig
    /\ result.kind = "return" /\ lutfile.state = "closed"
    /\ Occurrences(RangeWarningMsg, log) = 1

\* a run that detects the topology has evaluated a sample: lut_to_lut's
\* write function has its data, or plot_that_lut, asked for no plot type
\* (or 'auto'), has collected a value
SampledAfterDetection ==
    \/ called.fn = "lut_to_lut" /\ data # <<>>
    \/ /\ called.fn = "plot_that_lut"
       /\ req.plot_type \in {"None", "", "auto"}
       /\ red_values # <<>>

\* C12: the probe comes before the samples, a transform detected as 3D is
\* sampled by a processor created with tetrahedral interpolation, and a
\* linear processor samples only a transform detected as 1D/2D.
C12_ProbeThenSample ==
    SampledAfterDetection =>
        /\ probe # "none"
        /\ probe = "3D" => processor.interp = "tetrahedral"
        /\ processor.interp = "linear" => probe = "1D/2D"

=============================================================================
